---- MODULE Spec2Model ----
(***************************************************************************)
(* Model of tools/sample_parser/sample_parser.py: the script that loads    *)
(* the sampled instruction pointers and task ids ("ips_sampled"), streams  *)
(* the objdump listing ("objdump_output"), attributes samples to the       *)
(* enclosing function and instruction, and prints per-task frequencies.    *)
(*                                                                         *)
(* Text is modelled as sequences of one-character strings, so slicing,     *)
(* the substring test and the two regular expressions are computed on the  *)
(* characters as Python computes them.                                     *)
(***************************************************************************)
EXTENDS Integers, Sequences, FiniteSets, TLC

VARIABLES
    ip_file,                  \* the lines of "ips_sampled"
    bin_file,                 \* the lines of "objdump_output"
    ip_pos,                   \* lines of ip_file consumed by the loading loop
    bin_pos,                  \* lines of bin_file consumed by the scan loop
    ip_list,                  \* working list of instruction pointers
    id_list,                  \* task ids, appended in step with ip_list on load
    ip_list_len,              \* len(ip_list) taken right after loading
    enclosing_function,       \* most recent function name seen in bin_file
    line,                     \* the disassembly line the scan is on
    idx,                      \* enumerate() counter = list iterator position
    ip_frequency_per_id,      \* id -> instruction -> count
    function_frequency_per_id,\* id -> function -> count
    function_instruction,     \* list of (function, instruction) tuples
    printed,                  \* ids whose block the report loop has printed
    output,                   \* rows printed so far
    pc,                       \* position of the script
    origin,                   \* history: origin[k] = load index of ip_list[k]
    history                   \* history: one record per attribution

vars == <<ip_file, bin_file, ip_pos, bin_pos, ip_list, id_list, ip_list_len,
          enclosing_function, line, idx, ip_frequency_per_id,
          function_frequency_per_id, function_instruction, printed, output,
          pc, origin, history>>

----------------------------------------------------------------------------
(* Bounds of the model. *)

MaxSamples == 3

MaxLines == 2

----------------------------------------------------------------------------
(* Program constants: the fixed columns of a sample record. *)

IpStart == 4

IpEnd == 20

IdStart == 21

IdEnd == 22

----------------------------------------------------------------------------
(* Text primitives. *)

\* The characters \s matches, among those that occur in the modelled files.
Whitespace == {" ", "\t", "\n"}

\* The class [a-z].
Lowercase == {"a", "b", "c", "d", "e", "f", "g", "h", "i", "j", "k", "l", "m",
              "n", "o", "p", "q", "r", "s", "t", "u", "v", "w", "x", "y", "z"}

Min(a, b) == IF a <= b THEN a ELSE b

\* Python's s[lo:hi] for 0 <= lo, hi: both ends are clamped to len(s).
Slice(s, lo, hi) == SubSeq(s, Min(lo, Len(s)) + 1, Min(hi, Len(s)))

\* Python's "s in t" on strings: s occurs as a contiguous run of t.
IsSubstring(s, t) ==
    {k \in 0..(Len(t) - Len(s)) : SubSeq(t, k + 1, k + Len(s)) = s} # {}

\* First index e >= k at which the run of class-C characters starting at k
\* ends (Len(l) + 1 when it reaches the end of l): a greedy C* from k.
RECURSIVE RunEnd(_, _, _)
RunEnd(l, k, C) ==
    IF k > Len(l) \/ l[k] \notin C THEN k ELSE RunEnd(l, k + 1, C)

\* function_regex = '<(.)*>:'. A match from a "<" at p ends at a ">:" at q,
\* q + 1 with no newline in between ("." excludes the newline).
FunctionMatch(l, p, q) ==
    /\ l[p] = "<"
    /\ l[q] = ">"
    /\ l[q + 1] = ":"
    /\ \A r \in (p + 1)..(q - 1) : l[r] # "\n"

\* The starts at which function_regex matches.
FunctionStarts(l) ==
    {p \in 1..Len(l) : l[p] = "<" /\ \E q \in (p + 1)..(Len(l) - 1) : FunctionMatch(l, p, q)}

\* function_regex.search(line) is not None
HasFunction(l) == FunctionStarts(l) # {}

\* possible_function.group(0): leftmost start, and "*" being greedy, the
\* last end.
FunctionGroup0(l) ==
    LET starts == FunctionStarts(l)
        p == CHOOSE a \in starts : \A b \in starts : a <= b
        ends == {q \in (p + 1)..(Len(l) - 1) : FunctionMatch(l, p, q)}
        q == CHOOSE a \in ends : \A b \in ends : a >= b
    IN  SubSeq(l, p, q + 1)

\* instruction_regex = '(\s{2,})([a-z])+(?=\s+)'. From a start p the greedy
\* whitespace run must be two or more long, the greedy letter run after it one
\* or more, and the character after the letters whitespace; backtracking
\* either run only meets a character of the wrong class.
InstructionAt(l, p) ==
    LET i == RunEnd(l, p, Whitespace)
        j == RunEnd(l, i, Lowercase)
    IN  /\ l[p] \in Whitespace
        /\ i - p >= 2
        /\ j > i
        /\ j <= Len(l)
        /\ l[j] \in Whitespace

\* instruction_regex.search(line) is not None
HasInstruction(l) == \E p \in 1..Len(l) : InstructionAt(l, p)

\* m.group(0).lstrip(): the letters of the leftmost match.
InstructionName(l) ==
    LET p == CHOOSE a \in 1..Len(l) :
                 /\ InstructionAt(l, a)
                 /\ \A b \in 1..(a - 1) : ~InstructionAt(l, b)
        i == RunEnd(l, p, Whitespace)
        j == RunEnd(l, i, Lowercase)
    IN  SubSeq(l, i, j - 1)

\* The literal key of the no-instruction branch, kept as one element so that
\* it is a sequence like every other key.
HeaderIPKey == <<"Function Header IP (no associated instruction)">>

\* The second member of the tuple appended in the no-instruction branch.
HeaderIPTag == <<"Function Header IP">>

----------------------------------------------------------------------------
(* The input files the model explores. A line is held as a string; Chars   *)
(* gives its characters.                                                   *)

\* A sample record: four characters, the pointer, a separator, the task id.
\* Pointer A, task 1.
RecA1 == "IP: ffffffff801000a0 1\n"

\* Pointer B, task 2.
RecB2 == "IP: ffffffff801000b0 2\n"

\* Pointer Z, which no disassembly line holds, task 3.
RecZ3 == "IP: ffffffff801000e0 3\n"

\* An empty line of the trace: too short to hold either field.
RecEmpty == "\n"

\* The header line of function f, which starts at B.
LineHeaderF == "ffffffff801000b0 <f>:\n"

\* The header line of function g; no sample has its address.
LineHeaderG == "ffffffff801000c0 <g>:\n"

\* The instruction at A, whose operand names B.
LineCallAB == "ffffffff801000a0:\te8  call ffffffff801000b0 <f>\n"

\* The instruction at B.
LineRetB == "ffffffff801000b0:\tc3  ret\n"

RecordCorpus == {RecA1, RecB2, RecZ3, RecEmpty}

LineCorpus == {LineHeaderF, LineHeaderG, LineCallAB, LineRetB}

\* The characters of a line of either file.
Chars(s) ==
    CASE s = RecA1 ->
           <<"I", "P", ":", " ", "f", "f", "f", "f", "f", "f", "f", "f", "8",
             "0", "1", "0", "0", "0", "a", "0", " ", "1", "\n">>
      [] s = RecB2 ->
           <<"I", "P", ":", " ", "f", "f", "f", "f", "f", "f", "f", "f", "8",
             "0", "1", "0", "0", "0", "b", "0", " ", "2", "\n">>
      [] s = RecZ3 ->
           <<"I", "P", ":", " ", "f", "f", "f", "f", "f", "f", "f", "f", "8",
             "0", "1", "0", "0", "0", "e", "0", " ", "3", "\n">>
      [] s = RecEmpty ->
           <<"\n">>
      [] s = LineHeaderF ->
           <<"f", "f", "f", "f", "f", "f", "f", "f", "8", "0", "1", "0", "0",
             "0", "b", "0", " ", "<", "f", ">", ":", "\n">>
      [] s = LineHeaderG ->
           <<"f", "f", "f", "f", "f", "f", "f", "f", "8", "0", "1", "0", "0",
             "0", "c", "0", " ", "<", "g", ">", ":", "\n">>
      [] s = LineCallAB ->
           <<"f", "f", "f", "f", "f", "f", "f", "f", "8", "0", "1", "0", "0",
             "0", "a", "0", ":", "\t", "e", "8", " ", " ", "c", "a", "l", "l",
             " ", "f", "f", "f", "f", "f", "f", "f", "f", "8", "0", "1", "0",
             "0", "0", "b", "0", " ", "<", "f", ">", "\n">>
      [] s = LineRetB ->
           <<"f", "f", "f", "f", "f", "f", "f", "f", "8", "0", "1", "0", "0",
             "0", "b", "0", ":", "\t", "c", "3", " ", " ", "r", "e", "t", "\n">>

SeqsUpTo(S, n) == UNION {[1..k -> S] : k \in 0..n}

----------------------------------------------------------------------------
(* Helpers for the dictionaries and lists. *)

\* d[id][key] += 1 on a defaultdict of defaultdict(int).
Increment(d, id, key) ==
    LET inner == IF id \in DOMAIN d THEN d[id] ELSE <<>>
        n == IF key \in DOMAIN inner THEN inner[key] ELSE 0
    IN  (id :> ((key :> (n + 1)) @@ inner)) @@ d

\* Position of the first element of l equal to x (x occurs in l).
FirstIndex(l, x) ==
    CHOOSE p \in 1..Len(l) : l[p] = x /\ \A r \in 1..(p - 1) : l[r] # x

\* l with position p deleted.
DeleteAt(l, p) == SubSeq(l, 1, p - 1) \o SubSeq(l, p + 1, Len(l))

\* No position: the list is left as it is.
RemovedIndexNone(l, x) == 0

\* The position list.remove(x) deletes: the first occurrence of the value.
RemovedIndex(l, x) == FirstIndex(l, x)

\* Sum of the counts of one inner table.
RECURSIVE SumOver(_, _)
SumOver(t, K) ==
    IF K = {} THEN 0
    ELSE LET k == CHOOSE x \in K : TRUE IN t[k] + SumOver(t, K \ {k})

Total(t) == SumOver(t, DOMAIN t)

\* The orders sorted(t.items(), key=itemgetter(1), reverse=True) can yield:
\* counts descending; equal counts keep the dictionary's own, unspecified, order.
SortedOrders(t) ==
    {o \in [1..Cardinality(DOMAIN t) -> DOMAIN t] :
        /\ \A a, b \in DOMAIN o : a # b => o[a] # o[b]
        /\ \A a \in DOMAIN o : a + 1 \in DOMAIN o => t[o[a]] >= t[o[a + 1]]}

----------------------------------------------------------------------------
(* The script. *)

Init ==
    /\ ip_file \in SeqsUpTo(RecordCorpus, MaxSamples)
    /\ bin_file \in SeqsUpTo(LineCorpus, MaxLines)
    /\ ip_pos = 0
    /\ bin_pos = 0
    /\ ip_list = <<>>
    /\ id_list = <<>>
    /\ ip_list_len = 0
    /\ enclosing_function = <<>>
    /\ line = ""
    /\ idx = 0
    /\ ip_frequency_per_id = <<>>
    /\ function_frequency_per_id = <<>>
    /\ function_instruction = <<>>
    /\ printed = {}
    /\ output = <<>>
    /\ pc = "load"
    /\ origin = <<>>
    /\ history = <<>>

\* line[4:20]
IpField(rec) == Slice(rec, IpStart, IpEnd)

\* line[21:22]
IdField(rec) == Slice(rec, IdStart, IdEnd)

\* One iteration of "for line in ip_file": both fields are appended as sliced.
LoadSample ==
    /\ pc = "load"
    /\ ip_pos < Len(ip_file)
    /\ ip_list' = Append(ip_list, IpField(Chars(ip_file[ip_pos + 1])))
    /\ id_list' = Append(id_list, IdField(Chars(ip_file[ip_pos + 1])))
    /\ origin' = Append(origin, ip_pos + 1)
    /\ ip_pos' = ip_pos + 1
    /\ UNCHANGED <<ip_file, bin_file, bin_pos, ip_list_len, enclosing_function,
                   line, idx, ip_frequency_per_id, function_frequency_per_id,
                   function_instruction, printed, output, pc, history>>

\* The loading loop ends and ip_list_len = len(ip_list)*1.0 is taken; the
\* float is held as the whole number it equals.
LoadDone ==
    /\ pc = "load"
    /\ ip_pos = Len(ip_file)
    /\ ip_list_len' = Len(ip_list)
    /\ pc' = "scan"
    /\ UNCHANGED <<ip_file, bin_file, ip_pos, bin_pos, ip_list, id_list,
                   enclosing_function, line, idx, ip_frequency_per_id,
                   function_frequency_per_id, function_instruction, printed,
                   output, origin, history>>

\* The first header seen is kept for the rest of the listing.
UpdateEnclosingFirstOnly(fn, l) ==
    IF HasFunction(l) /\ fn = <<>> THEN FunctionGroup0(l) ELSE fn

\* The value of enclosing_function after the header test on line l.
UpdateEnclosing(fn, l) == IF HasFunction(l) THEN FunctionGroup0(l) ELSE fn

\* "for line in bin_file" takes the next line, updates enclosing_function and
\* starts "for idx, ip in enumerate(ip_list)".
ReadLine ==
    /\ pc = "scan"
    /\ bin_pos < Len(bin_file)
    /\ line' = bin_file[bin_pos + 1]
    /\ bin_pos' = bin_pos + 1
    /\ enclosing_function' = UpdateEnclosing(enclosing_function, Chars(bin_file[bin_pos + 1]))
    /\ idx' = 0
    /\ pc' = "match"
    /\ UNCHANGED <<ip_file, bin_file, ip_pos, ip_list, id_list, ip_list_len,
                   ip_frequency_per_id, function_frequency_per_id,
                   function_instruction, printed, output, origin, history>>

\* The position after an iteration of a loop over a copy of the list: a
\* removal moves the next element down to the current position.
NextIdxSnapshot(i, removed) == IF removed THEN i ELSE i + 1

\* The iterator position after an iteration: the list iterator advances by
\* one whether or not the body removed an element from the list.

NextIdx(i, removed) == i + 1

\* The branch with an instruction: both tables are counted under id.
RecordInstruction(id, l) ==
    /\ ip_frequency_per_id' = Increment(ip_frequency_per_id, id, InstructionName(l))
    /\ function_frequency_per_id' =
           Increment(function_frequency_per_id, id, enclosing_function)
    /\ function_instruction' =
           Append(function_instruction, <<enclosing_function, InstructionName(l)>>)

\* The no-instruction branch without its function count.
RecordHeaderIPNoFunction(id) ==
    /\ ip_frequency_per_id' = Increment(ip_frequency_per_id, id, HeaderIPKey)
    /\ function_frequency_per_id' = function_frequency_per_id
    /\ function_instruction' =
           Append(function_instruction, <<enclosing_function, HeaderIPTag>>)

\* The branch without an instruction.
RecordHeaderIP(id) ==
    /\ ip_frequency_per_id' = Increment(ip_frequency_per_id, id, HeaderIPKey)
    /\ function_frequency_per_id' =
           Increment(function_frequency_per_id, id, enclosing_function)
    /\ function_instruction' =
           Append(function_instruction, <<enclosing_function, HeaderIPTag>>)

\* An iteration of the inner loop whose ip occurs in the line: the counts go
\* under id_list[idx], then ip_list.remove(ip).
Attribute ==
    /\ pc = "match"
    /\ idx < Len(ip_list)
    /\ IsSubstring(ip_list[idx + 1], Chars(line))
    /\ LET ip == ip_list[idx + 1]
           id == id_list[idx + 1]
           p  == RemovedIndex(ip_list, ip)
       IN  /\ IF HasInstruction(Chars(line))
                 THEN RecordInstruction(id, Chars(line))
                 ELSE RecordHeaderIP(id)
           /\ history' = Append(history,
                  [sample |-> origin[idx + 1], id |-> id,
                   lineno |-> bin_pos, at |-> idx])
           /\ ip_list' = DeleteAt(ip_list, p)
           /\ origin' = DeleteAt(origin, p)
    /\ idx' = NextIdx(idx, TRUE)
    /\ UNCHANGED <<ip_file, bin_file, ip_pos, bin_pos, id_list, ip_list_len,
                   enclosing_function, line, printed, output, pc>>

\* An iteration of the inner loop whose ip does not occur in the line.
NoMatch ==
    /\ pc = "match"
    /\ idx < Len(ip_list)
    /\ ~IsSubstring(ip_list[idx + 1], Chars(line))
    /\ idx' = NextIdx(idx, FALSE)
    /\ UNCHANGED <<ip_file, bin_file, ip_pos, bin_pos, ip_list, id_list,
                   ip_list_len, enclosing_function, line, ip_frequency_per_id,
                   function_frequency_per_id, function_instruction, printed,
                   output, pc, origin, history>>

\* The list iterator is exhausted: the inner loop ends.
EndLine ==
    /\ pc = "match"
    /\ idx >= Len(ip_list)
    /\ pc' = "scan"
    /\ UNCHANGED <<ip_file, bin_file, ip_pos, bin_pos, ip_list, id_list,
                   ip_list_len, enclosing_function, line, idx,
                   ip_frequency_per_id, function_frequency_per_id,
                   function_instruction, printed, output, origin, history>>

\* bin_file is exhausted: the scan ends.
ScanDone ==
    /\ pc = "scan"
    /\ bin_pos = Len(bin_file)
    /\ pc' = "report"
    /\ UNCHANGED <<ip_file, bin_file, ip_pos, bin_pos, ip_list, id_list,
                   ip_list_len, enclosing_function, line, idx,
                   ip_frequency_per_id, function_frequency_per_id,
                   function_instruction, printed, output, origin, history>>

\* The length of the list as the report finds it.
DenominatorAtReport == Len(ip_list)

\* The divisor of every printed frequency and the printed total.
Denominator == ip_list_len

\* The rows printed for table t in order o: name, freq / ip_list_len, the
\* quotient kept as numerator and denominator.
Rows(kind, id, t, o) ==
    [k \in 1..Len(o) |->
        [kind |-> kind, id |-> id, label |-> o[k], num |-> t[o[k]], den |-> Denominator]]

\* One iteration of "for id in function_frequency_per_id.keys()": the header,
\* the functions, the instructions. The order of the keys is the dictionary's.
ReportId ==
    /\ pc = "report"
    /\ \E id \in DOMAIN function_frequency_per_id \ printed :
       \E fo \in SortedOrders(function_frequency_per_id[id]) :
       \E io \in SortedOrders(ip_frequency_per_id[id]) :
          /\ output' = output
                 \o <<[kind |-> "id", id |-> id, label |-> <<>>, num |-> 0, den |-> 0]>>
                 \o Rows("function", id, function_frequency_per_id[id], fo)
                 \o Rows("instruction", id, ip_frequency_per_id[id], io)
          /\ printed' = printed \cup {id}
    /\ UNCHANGED <<ip_file, bin_file, ip_pos, bin_pos, ip_list, id_list,
                   ip_list_len, enclosing_function, line, idx,
                   ip_frequency_per_id, function_frequency_per_id,
                   function_instruction, pc, origin, history>>

\* print "Samples taken: {}".format(ip_list_len)
ReportTotal ==
    /\ pc = "report"
    /\ printed = DOMAIN function_frequency_per_id
    /\ output' = Append(output,
           [kind |-> "total", id |-> <<>>, label |-> <<>>, num |-> Denominator, den |-> 1])
    /\ pc' = "done"
    /\ UNCHANGED <<ip_file, bin_file, ip_pos, bin_pos, ip_list, id_list,
                   ip_list_len, enclosing_function, line, idx,
                   ip_frequency_per_id, function_frequency_per_id,
                   function_instruction, printed, origin, history>>

Next ==
    \/ LoadSample
    \/ LoadDone
    \/ ReadLine
    \/ Attribute
    \/ NoMatch
    \/ EndLine
    \/ ScanDone
    \/ ReportId
    \/ ReportTotal

Spec == Init /\ [][Next]_vars

----------------------------------------------------------------------------
(* Vocabulary of the properties. *)

Range(q) == {q[i] : i \in DOMAIN q}

\* The samples loaded so far, by load index.
Loaded == 1..Len(id_list)

\* The address token of loaded sample i.
LoadedIp(i) == IpField(Chars(ip_file[i]))

\* Disassembly line k holds address a as a substring.
Contains(k, a) == IsSubstring(a, Chars(bin_file[k]))

\* The lines of the whole listing that hold address a.
LinesWith(a) == {k \in 1..Len(bin_file) : Contains(k, a)}

\* The attributions recorded so far, by position in function_instruction.
Attributions == 1..Len(history)

\* The address token of the sample of attribution k.
AttributedIp(k) == LoadedIp(history[k].sample)

\* The samples no longer in the working list.
Removed == Loaded \ Range(origin)

\* The total of task t's table in d; a task without an entry counts zero.
TableTotal(d, t) == IF t \in DOMAIN d THEN Total(d[t]) ELSE 0

\* Every task id in sight: loaded with a sample, or holding a table entry.
TaskIds ==
    Range(id_list) \cup DOMAIN ip_frequency_per_id
                   \cup DOMAIN function_frequency_per_id

ScanOver == pc \in {"report", "done"}

HexDigits == {"0", "1", "2", "3", "4", "5", "6", "7", "8", "9",
              "a", "b", "c", "d", "e", "f", "A", "B", "C", "D", "E", "F"}

\* A record too short to hold the address and task-id columns, or whose
\* address column holds a character that is no hex digit.
Malformed(rec) ==
    \/ Len(rec) < IdEnd
    \/ \E c \in Range(IpField(rec)) : c \notin HexDigits

\* Every record of the trace holds both columns and a hex address.
WellFormedTrace == \A i \in 1..Len(ip_file) : ~Malformed(Chars(ip_file[i]))

\* No two records of the trace carry the same address.
DistinctAddresses ==
    \A i, j \in 1..Len(ip_file) :
        i # j => IpField(Chars(ip_file[i])) # IpField(Chars(ip_file[j]))

\* A trace of well-formed records with pairwise distinct addresses: a
\* violation on such a trace owes nothing to the handling of malformed
\* records or of repeated addresses.
PlainTrace == WellFormedTrace /\ DistinctAddresses

----------------------------------------------------------------------------
(* C1 *)

\* C1: at the end of the scan, for every task id t, the total of t's
\* instruction-frequency table equals the number of loaded samples tagged t
\* that were removed from the working list. Stated for plain traces.
CountsUnderOwnTask ==
    (ScanOver /\ PlainTrace) =>
        \A t \in TaskIds :
            TableTotal(ip_frequency_per_id, t) =
                Cardinality({i \in Removed : id_list[i] = t})

----------------------------------------------------------------------------
(* C2 *)

\* C2: in every state and for every address a, the attributions recorded for
\* a plus the entries of the working list equal to a number the samples
\* loaded with address a: a match removes one entry of that address, so none
\* is matched a second time when the address recurs on a later line.
NoDoubleAttribution ==
    \A a \in {LoadedIp(i) : i \in Loaded} :
        Cardinality({k \in Attributions : AttributedIp(k) = a})
          + Cardinality({k \in 1..Len(ip_list) : ip_list[k] = a})
          = Cardinality({i \in Loaded : LoadedIp(i) = a})

\* The scan is over, an address was attributed on one line and recurs on a
\* later line, and it still has exactly as many attributions as samples.
RecurringAddressMatchedOnce ==
    /\ pc = "done"
    /\ \E k \in Attributions :
          /\ \E j \in LinesWith(AttributedIp(k)) : j > history[k].lineno
          /\ Cardinality({i \in Loaded : LoadedIp(i) = AttributedIp(k)}) = 1
          /\ Cardinality({m \in Attributions : AttributedIp(m) = AttributedIp(k)}) = 1

----------------------------------------------------------------------------
(* C3 *)

\* The samples loaded with address a and task id t.
SamplesOf(a, t) == {i \in Loaded : LoadedIp(i) = a /\ id_list[i] = t}

\* Exactly one attribution for address a, every other sample of it left.
OneAttributedRestLeft(a, n) ==
    /\ Cardinality({k \in Attributions : AttributedIp(k) = a}) = 1
    /\ Cardinality({k \in 1..Len(ip_list) : ip_list[k] = a}) = n - 1

----------------------------------------------------------------------------
(* C4 *)

\* C4: at the end of the scan a sample whose address is a substring of no
\* disassembly line has no attribution and is still in the working list, and
\* a task id all of whose samples are such has no entry in either table.
\* Stated for plain traces.
UnmatchedNeverCounted ==
    (ScanOver /\ PlainTrace) =>
        /\ \A i \in Loaded :
              LinesWith(LoadedIp(i)) = {} =>
                  /\ i \in Range(origin)
                  /\ \A k \in Attributions : history[k].sample # i
        /\ \A t \in Range(id_list) :
              (\A i \in Loaded : id_list[i] = t => LinesWith(LoadedIp(i)) = {})
                  => /\ t \notin DOMAIN function_frequency_per_id
                     /\ t \notin DOMAIN ip_frequency_per_id

----------------------------------------------------------------------------
(* C5 *)

\* The numerators of the rows of one kind printed for task id, from row k on.
RECURSIVE SumRows(_, _, _)
SumRows(kind, id, k) ==
    IF k > Len(output) THEN 0
    ELSE (IF output[k].kind = kind /\ output[k].id = id THEN output[k].num ELSE 0)
         + SumRows(kind, id, k + 1)

\* C5: once loading is over ip_list_len is the number of samples loaded and
\* the scan leaves it alone; every printed frequency has that number as its
\* divisor, the printed total is that number, and the numerators printed for
\* a task sum to the attributions counted under it.
DenominatorIsLoadedTotal ==
    /\ pc # "load" => (ip_list_len = Len(ip_file) /\ ip_list_len = Len(id_list))
    /\ \A k \in 1..Len(output) :
          /\ output[k].kind \in {"function", "instruction"}
                => output[k].den = Len(ip_file)
          /\ output[k].kind = "total" => output[k].num = Len(ip_file)
    /\ \A t \in printed :
          /\ SumRows("instruction", t, 1)
                = Cardinality({k \in Attributions : history[k].id = t})
          /\ SumRows("function", t, 1)
                = Cardinality({k \in Attributions : history[k].id = t})

\* The report is printed after a scan that removed samples, and some task's
\* frequencies sum to less than one.
ReportAfterRemovals ==
    /\ pc = "done"
    /\ Len(ip_list) < Len(ip_file)
    /\ \E t \in printed :
          /\ SumRows("instruction", t, 1) > 0
          /\ SumRows("instruction", t, 1) < Len(ip_file)
          /\ \E k \in 1..Len(output) :
                output[k].kind = "instruction" /\ output[k].den = Len(ip_file)
    /\ output[Len(output)].kind = "total"

----------------------------------------------------------------------------
(* C6 *)

\* C6: in every state and for every task id, the total of the task's
\* instruction table equals the total of its function table and the number
\* of attributions recorded under that id.
TablesAgree ==
    \A t \in TaskIds :
        /\ TableTotal(ip_frequency_per_id, t) = TableTotal(function_frequency_per_id, t)
        /\ TableTotal(ip_frequency_per_id, t)
              = Cardinality({k \in Attributions : history[k].id = t})

\* Mid-scan, one task holds a count from the instruction branch and a count
\* from the no-instruction branch.
BothBranchesTaken ==
    /\ pc \in {"scan", "match"}
    /\ \E t \in DOMAIN ip_frequency_per_id :
          /\ HeaderIPKey \in DOMAIN ip_frequency_per_id[t]
          /\ DOMAIN ip_frequency_per_id[t] # {HeaderIPKey}

----------------------------------------------------------------------------
(* C7 *)

\* C7: a malformed record yields no entry of the working list and no
\* attribution: no sample loaded from one is in the list or was ever matched.
MalformedNeverLoaded ==
    \A i \in Loaded :
        Malformed(Chars(ip_file[i])) =>
            /\ i \notin Range(origin)
            /\ \A k \in Attributions : history[k].sample # i

----------------------------------------------------------------------------
(* C8 *)

\* C8: once a line has been processed no entry of the working list is a
\* substring of it, and at the end of the scan every sample whose address
\* occurs in some line has been removed. Stated for plain traces.
EverySampleTested ==
    PlainTrace =>
        /\ (pc = "scan" /\ bin_pos >= 1) =>
              \A k \in 1..Len(ip_list) : ~IsSubstring(ip_list[k], Chars(line))
        /\ ScanOver =>
              \A i \in Loaded : LinesWith(LoadedIp(i)) # {} => i \in Removed

----------------------------------------------------------------------------
(* C9 *)

\* C9: every attribution is made on the first line of the listing that holds
\* the sample's address. Stated for plain traces.
FirstMatchWins ==
    PlainTrace =>
        \A k \in Attributions :
            \A j \in 1..(history[k].lineno - 1) : ~Contains(j, AttributedIp(k))

----------------------------------------------------------------------------
(* C10 *)

\* The header lines among the first n lines of the listing.
HeadersUpTo(n) == {j \in 1..n : HasFunction(Chars(bin_file[j]))}

\* The name on the last header line among the first n lines, "" if none.
LastHeaderName(n) ==
    LET H == HeadersUpTo(n)
    IN  IF H = {} THEN <<>>
        ELSE FunctionGroup0(Chars(bin_file[CHOOSE j \in H : \A m \in H : m <= j]))

\* C10: the function of every attribution is the name on the most recent
\* header line at or before the matched line, and is the empty string exactly
\* when there is no header line up to and including the matched line; the
\* function table counts each attribution under that name.
FunctionIsLastHeader ==
    /\ Len(function_instruction) = Len(history)
    /\ \A k \in Attributions :
          /\ function_instruction[k][1] = LastHeaderName(history[k].lineno)
          /\ (function_instruction[k][1] = <<>>) <=> (HeadersUpTo(history[k].lineno) = {})
    /\ \A t \in DOMAIN function_frequency_per_id :
          \A f \in DOMAIN function_frequency_per_id[t] :
              function_frequency_per_id[t][f] =
                  Cardinality({k \in Attributions :
                      history[k].id = t /\ function_instruction[k][1] = f})

\* The scan is over with one sample matched before any header line, recorded
\* with the empty function and removed, and one matched on a header line that
\* follows another function's header.
HeaderCasesSeen ==
    /\ pc = "done"
    /\ \E k \in Attributions :
          /\ HeadersUpTo(history[k].lineno) = {}
          /\ function_instruction[k][1] = <<>>
          /\ history[k].sample \in Removed
    /\ \E k \in Attributions :
          /\ history[k].lineno \in HeadersUpTo(history[k].lineno)
          /\ function_instruction[k][1] # <<>>

====
